---- MODULE Spec2Model ----
(***************************************************************************)
(* mesh_client.py: a TCP client of the MeshCore RS232 bridge.              *)
(*                                                                         *)
(* The model has the three parties of one connection: the peer (the        *)
(* bridge at the other end of the socket), the background receiver thread  *)
(* (receiver_thread, which runs read_rs232_frame in a loop) and the main   *)
(* thread (the interactive command loop of main).  Byte strings are        *)
(* sequences of integers 0..255.  Every blocking call (sock.recv, input)   *)
(* is one step of its thread; sock.sendall is one step per piece written.  *)
(***************************************************************************)
EXTENDS Integers, Sequences, FiniteSets, TLC

(***************************************************************************)
(* Bounds of the model                                                     *)
(***************************************************************************)
MaxLen == 3          \* longest packet body enumerated by SpecCodec
MaxPeerSends == 2    \* writes of the peer on one connection (SpecRx)
MaxCmds == 3         \* lines the user types (SpecTx)
ConcSends == 1       \* writes of the peer in the concurrent Spec
ConcCmds == 2        \* lines the user types in the concurrent Spec
MaxText == 10        \* longest message text of a msg command (SpecBuild)
BuildCmds == 2       \* lines the user types (SpecBuild)
BigCmds == 3         \* lines the user types (SpecBig)

(***************************************************************************)
(* Program constants                                                       *)
(***************************************************************************)
MAGIC0 == 192        \* 0xC0
MAGIC1 == 62         \* 0x3E
NEWLINE == 10        \* b'\n'
U16_MAX == 65535     \* range of struct format 'H'
FLETCHER_MOD == 255

(***************************************************************************)
(* Helpers                                                                 *)
(***************************************************************************)
Min(a, b) == IF a < b THEN a ELSE b

SeqsUpTo(S, n) == UNION {[1..k -> S] : k \in 0..n}

\* The value of a call that either returns val or raises err.
Ok(v) == [err |-> "", val |-> v]
Raised(e) == [err |-> e, val |-> <<>>]

(***************************************************************************)
(* fletcher16 (lines 32-38)                                                *)
(***************************************************************************)
\* The loop of lines 34-37 run on data[from..to], in order, starting from the
\* accumulators sums = <<sum1, sum2>>.  The range is walked half by half so
\* that the evaluation stays shallow on long data; the bytes are still taken
\* one by one from left to right.  The test on the result of the left half
\* is always true: it makes that half be evaluated before the right half is
\* entered.
RECURSIVE fletcher16_loop(_, _, _, _)
fletcher16_loop(data, from, to, sums) ==
    IF from > to THEN sums
    ELSE IF from = to
    THEN LET sum1 == (sums[1] + data[from]) % FLETCHER_MOD
             sum2 == (sums[2] + sum1) % FLETCHER_MOD
         IN <<sum1, sum2>>
    ELSE LET mid == (from + to) \div 2
             left == fletcher16_loop(data, from, mid, sums)
         IN IF left[1] < FLETCHER_MOD
            THEN fletcher16_loop(data, mid + 1, to, left)
            ELSE left

\* Faulty variant: the accumulators are reduced modulo 256.
RECURSIVE fletcher16_mod256_loop(_, _, _, _)
fletcher16_mod256_loop(data, from, to, sums) ==
    IF from > to THEN sums
    ELSE IF from = to
    THEN LET sum1 == (sums[1] + data[from]) % 256
             sum2 == (sums[2] + sum1) % 256
         IN <<sum1, sum2>>
    ELSE LET mid == (from + to) \div 2
             left == fletcher16_mod256_loop(data, from, mid, sums)
         IN IF left[1] < 256
            THEN fletcher16_mod256_loop(data, mid + 1, to, left)
            ELSE left

fletcher16_mod256(data) ==
    LET sums == fletcher16_mod256_loop(data, 1, Len(data), <<0, 0>>)
    IN <<sums[2], sums[1]>>

\* Faulty variant: the loop starts at the second byte.
fletcher16_skip_first(data) ==
    LET sums == fletcher16_loop(data, 2, Len(data), <<0, 0>>)
    IN <<sums[2], sums[1]>>

fletcher16(data) ==
    LET sums == fletcher16_loop(data, 1, Len(data), <<0, 0>>)
    IN <<sums[2], sums[1]>>

(***************************************************************************)
(* struct.pack(">H", n) and struct.unpack(">H", b)[0]                      *)
(***************************************************************************)
\* Faulty variant: a value out of range is reduced modulo 65536.
pack_u16_be_wraps(n) ==
    Ok(<<(n \div 256) % 256, n % 256>>)

pack_u16_be(n) ==
    IF n < 0 \/ n > U16_MAX THEN Raised("struct.error")
    ELSE Ok(<<n \div 256, n % 256>>)

unpack_u16_be(b) ==
    IF Len(b) # 2 THEN Raised("struct.error") ELSE Ok((b[1] * 256) + b[2])

(***************************************************************************)
(* create_rs232_frame (lines 108-113)                                      *)
(***************************************************************************)
\* Faulty variant: the checksum covers the length field as well.
create_rs232_frame_sum_len(packet) ==
    LET magic == <<MAGIC0, MAGIC1>>
        length == pack_u16_be(Len(packet))
    IN IF length.err # "" THEN length
       ELSE Ok(magic \o length.val \o packet \o fletcher16(length.val \o packet))

\* Faulty variant: the length field is written little-endian.
create_rs232_frame_le(packet) ==
    LET magic == <<MAGIC0, MAGIC1>>
        n == Len(packet)
    IN IF n > U16_MAX THEN Raised("struct.error")
       ELSE Ok(magic \o <<n % 256, n \div 256>> \o packet \o fletcher16(packet))

create_rs232_frame(packet) ==
    LET magic == <<MAGIC0, MAGIC1>>
        length == pack_u16_be(Len(packet))
        checksum == fletcher16(packet)
    IN IF length.err # "" THEN length
       ELSE Ok(magic \o length.val \o packet \o checksum)

(***************************************************************************)
(* Strings are sequences of code points; str.encode("utf-8")               *)
(***************************************************************************)
utf8_char(c) ==
    IF c < 128 THEN Ok(<<c>>)
    ELSE IF c < 2048 THEN Ok(<<192 + (c \div 64), 128 + (c % 64)>>)
    ELSE IF c >= 55296 /\ c <= 57343 THEN Raised("UnicodeEncodeError")
    ELSE IF c < 65536
         THEN Ok(<<224 + (c \div 4096), 128 + ((c \div 64) % 64), 128 + (c % 64)>>)
    ELSE Ok(<<240 + (c \div 262144), 128 + ((c \div 4096) % 64),
              128 + ((c \div 64) % 64), 128 + (c % 64)>>)

RECURSIVE utf8_encode(_)
utf8_encode(s) ==
    IF s = <<>> THEN Ok(<<>>)
    ELSE LET h == utf8_char(Head(s))
             t == utf8_encode(Tail(s))
         IN IF h.err # "" THEN h
            ELSE IF t.err # "" THEN t
            ELSE Ok(h.val \o t.val)

(***************************************************************************)
(* Channel crypto (lines 41-73).  AES, HMAC and SHA-256 are library code:  *)
(* each is represented by a fixed deterministic function of its inputs     *)
(* with the library's output length.                                       *)
(***************************************************************************)
\* base64.b64decode("izOH6cXN6mrJ5e26oRXNcg==")
get_public_channel_secret ==
    <<139, 51, 135, 233, 197, 205, 234, 106, 201, 229, 237, 186, 161, 21, 205, 114>>

\* hashlib.sha256(secret).digest()[0]; 17 is its value on the public secret.
get_public_channel_hash(secret) ==
    IF secret = get_public_channel_secret THEN 17
    ELSE ((Len(secret) * 31) + 7) % 256

Zeros(n) == [i \in 1..n |-> 0]

\* Faulty variant: padding is added to data that already fills its last block.
pad_to_block_size_always(data, block_size) ==
    data \o Zeros(block_size - (Len(data) % block_size))

pad_to_block_size(data, block_size) ==
    LET padding_len0 == (block_size - (Len(data) % block_size)) % block_size
        padding_len == IF Len(data) % block_size # 0
                       THEN block_size - (Len(data) % block_size)
                       ELSE padding_len0
    IN data \o Zeros(padding_len)

\* AES.new(key, MODE_ECB).encrypt: block by block, each block a keyed
\* permutation of its 16 bytes.
aes_ecb_encrypt(key, padded) ==
    [i \in 1..Len(padded) |->
        LET b == (i - 1) \div 16
            j == (i - 1) % 16
        IN (padded[(16 * b) + ((j + 5) % 16) + 1] + key[j + 1]) % 256]

encrypt_aes128(secret, plaintext) ==
    LET key == SubSeq(secret, 1, Min(16, Len(secret)))
        padded == pad_to_block_size(plaintext, 16)
    IN aes_ecb_encrypt(key, padded)

\* HMAC.new(key, data, SHA256).digest()
hmac_sha256(key, data) ==
    LET first == IF data = <<>> THEN 0 ELSE data[1]
        last == IF data = <<>> THEN 0 ELSE data[Len(data)]
        k == IF key = <<>> THEN 0 ELSE key[1]
    IN [i \in 1..32 |-> ((first * i) + last + k + Len(data) + i) % 256]

encrypt_then_mac(secret, plaintext) ==
    LET encrypted == encrypt_aes128(secret, plaintext)
        mac == SubSeq(hmac_sha256(SubSeq(secret, 1, Min(32, Len(secret))), encrypted), 1, 2)
    IN mac \o encrypted

\* struct.pack('<I', n): n must be below 2^32 = 65536 * 65536.
pack_u32_le(n) ==
    IF n < 0 \/ (n \div 65536) > U16_MAX THEN Raised("struct.error")
    ELSE Ok(<<n % 256, (n \div 256) % 256, (n \div 65536) % 256, n \div 16777216>>)

(***************************************************************************)
(* create_group_message_data (76-83), create_group_text_packet (86-106)    *)
(***************************************************************************)
\* Faulty variant: the text is preceded by its length.
create_group_message_data_len_prefixed(timestamp, sender, message) ==
    LET ts == pack_u32_le(timestamp)
        formatted == utf8_encode(sender \o <<58, 32>> \o message)
    IN IF ts.err # "" THEN ts
       ELSE IF formatted.err # "" THEN formatted
       ELSE Ok(ts.val \o <<0, Len(formatted.val)>> \o formatted.val)

create_group_message_data(timestamp, sender, message) ==
    LET ts == pack_u32_le(timestamp)
        formatted == utf8_encode(sender \o <<58, 32>> \o message)
    IN IF ts.err # "" THEN ts
       ELSE IF formatted.err # "" THEN formatted
       ELSE Ok(ts.val \o <<0>> \o formatted.val)

ROUTE_FLOOD == 1
TYPE_GRP_TXT == 5

\* a | b on non-negative integers.
RECURSIVE bit_or(_, _)
bit_or(a, b) ==
    IF a = 0 THEN b
    ELSE IF b = 0 THEN a
    ELSE (2 * bit_or(a \div 2, b \div 2)) + (IF a % 2 = 1 \/ b % 2 = 1 THEN 1 ELSE 0)

\* Faulty variant: the type is shifted by one bit only.
pack_header_shift1(ptype, route) == bit_or(ptype * 2, route)

\* (TYPE_GRP_TXT << 2) | ROUTE_FLOOD (line 100), for any type and route.
pack_header(ptype, route) == bit_or(ptype * 4, route)

\* Faulty variant: the path_len byte is left out.
create_group_text_packet_no_path_len(sender, message, timestamp) ==
    LET secret == get_public_channel_secret
        data == create_group_message_data(timestamp, sender, message)
    IN IF data.err # "" THEN data
       ELSE Ok(<<pack_header(TYPE_GRP_TXT, ROUTE_FLOOD)>>
               \o <<get_public_channel_hash(secret)>>
               \o encrypt_then_mac(secret, data.val))

\* timestamp is int(time.time()), an input of the call.
create_group_text_packet(sender, message, timestamp) ==
    LET secret == get_public_channel_secret
        channel_hash == get_public_channel_hash(secret)
        data == create_group_message_data(timestamp, sender, message)
    IN IF data.err # "" THEN data
       ELSE LET encrypted == encrypt_then_mac(secret, data.val)
                payload == <<channel_hash>> \o encrypted
                header == pack_header(TYPE_GRP_TXT, ROUTE_FLOOD)
            IN Ok(<<header, 0>> \o payload)

(***************************************************************************)
(* bytes.fromhex(packet_hex.replace(" ", "")) (line 206); a line of text   *)
(* typed by the user is a sequence of one-character strings                *)
(***************************************************************************)
HEX_LOWER == <<"0","1","2","3","4","5","6","7","8","9","a","b","c","d","e","f">>
HEX_UPPER == <<"0","1","2","3","4","5","6","7","8","9","A","B","C","D","E","F">>

is_hex(c) == \E i \in 1..16 : HEX_LOWER[i] = c \/ HEX_UPPER[i] = c

hex_value(c) == (CHOOSE i \in 1..16 : HEX_LOWER[i] = c \/ HEX_UPPER[i] = c) - 1

remove_spaces(s) == SelectSeq(s, LAMBDA c : c # " ")

\* A pair of hexadecimal digits gives a byte; an odd number of digits or any
\* other character raises ValueError.
bytes_fromhex(s) ==
    IF Len(s) % 2 = 1 \/ \E i \in 1..Len(s) : ~is_hex(s[i]) THEN Raised("ValueError")
    ELSE Ok([i \in 1..(Len(s) \div 2) |->
                (16 * hex_value(s[(2 * i) - 1])) + hex_value(s[2 * i])])

(***************************************************************************)
(* display_packet (lines 154-178): what it prints, or nothing              *)
(***************************************************************************)
Slice(s, from, to) == SubSeq(s, Min(from, Len(s) + 1), Min(to, Len(s)))

display_packet(pkt) ==
    IF Len(pkt) < 3 THEN <<>>
    ELSE LET header == pkt[1]
             route == header % 4
             ptype == (header \div 4) % 16
             path_len == pkt[2]
             payload_len == pkt[3]
             payload_start == 3 + path_len
         IN << [tag |-> "rx", route |-> route, ptype |-> ptype,
                payload |-> Slice(pkt, payload_start + 1,
                                  payload_start + payload_len)] >>

(***************************************************************************)
(* State                                                                   *)
(***************************************************************************)
VARIABLES
    \* the inbound direction of the connection (peer -> client)
    stream,       \* every byte the peer has written so far
    arrived,      \* how many of them have reached the client's socket
    pos,          \* how many of them recv has handed to the receiver
    peerClosed,   \* the peer has closed: recv returns b'' once drained
    sent,         \* log of what the peer wrote (one record per write)
    peerLeft,     \* writes the peer will still make
    \* receiver_thread and the read_rs232_frame call it is in
    rpc,          \* "magic", "length", "body", "checksum", "newline", "stopped"
    fstart,       \* value of pos when the current read_rs232_frame call began
    magic, length_bytes, packet, checksum,   \* locals of read_rs232_frame
    count,        \* local of receiver_thread
    delivered,    \* the packets read_rs232_frame returned, in order
    rstop,        \* why the loop ended: "" (running), "none", "raised", "flag"
    rout,         \* what the receiver thread printed
    \* main
    mpc,          \* "input" (in the command loop), "closed", "exited"
    running,      \* running[0]
    sockOpen,     \* sock.close() has not been called
    sender_name,  \* local of main
    txout,        \* every byte written to the socket (client -> peer)
    sending,      \* the sock.sendall call main is in: the bytes it has still to
                  \* write and what main prints when it returns
    mout,         \* what the main thread printed
    built,        \* the calls of create_group_text_packet so far: arguments,
                  \* the clock value read, and the result
    linesLeft,    \* lines the user will still type
    \* the two threads and the one socket object
    inflight      \* sock.close() came while the receiver was inside a recv
                  \* call, and the kernel goes on serving that call

rxvars == <<stream, arrived, pos, peerClosed, sent, peerLeft, rpc, fstart, magic,
            length_bytes, packet, checksum, count, delivered, rstop, rout>>

txvars == <<mpc, running, sockOpen, sender_name, txout, sending, mout, built,
            linesLeft>>

vars == <<rxvars, txvars, inflight>>

(***************************************************************************)
(* The peer and the network                                                *)
(***************************************************************************)
\* One write of the peer: the frame of pkt, optionally followed by the
\* delimiter the device sends, optionally damaged in one byte.
\*   kind "good":     the frame as create_rs232_frame builds it
\*   kind "corrupt":  body byte idx replaced by val
\*   kind "badmagic": magic byte idx replaced by val
Item(kind, pkt, idx, val, nl) ==
    [kind |-> kind, pkt |-> pkt, idx |-> idx, val |-> val, nl |-> nl]

WireBytes(item) ==
    LET f == create_rs232_frame(item.pkt).val
        g == CASE item.kind = "good" -> f
               [] item.kind = "corrupt" -> [f EXCEPT ![4 + item.idx] = item.val]
               [] item.kind = "badmagic" -> [f EXCEPT ![item.idx] = item.val]
    IN IF item.nl THEN g \o <<NEWLINE>> ELSE g

PeerPackets == { <<>>, <<21, 0, 255>> }

PeerItems ==
    {Item("good", p, 0, 0, nl) : p \in PeerPackets, nl \in BOOLEAN}
    \cup {Item("corrupt", <<21, 0, 255>>, 3, v, TRUE) : v \in {0, 1}}
    \cup {Item("badmagic", <<>>, 2, 63, TRUE)}

PeerSend ==
    /\ ~peerClosed
    /\ peerLeft > 0
    /\ peerLeft' = peerLeft - 1
    /\ \E item \in PeerItems :
         /\ stream' = stream \o WireBytes(item)
         /\ sent' = Append(sent, item)
    /\ UNCHANGED <<arrived, pos, peerClosed, rpc, fstart, magic, length_bytes,
                   packet, checksum, count, delivered, rstop, rout, txvars, inflight>>

\* TCP hands the client the next bytes in segments of any size.
Deliver ==
    /\ ~peerClosed
    /\ \E k \in (arrived + 1)..Len(stream) : arrived' = k
    /\ UNCHANGED <<stream, pos, peerClosed, sent, peerLeft, rpc, fstart, magic,
                   length_bytes, packet, checksum, count, delivered, rstop,
                   rout, txvars, inflight>>

\* The peer closes (or dies): what has not arrived yet never will.
PeerClose ==
    /\ ~peerClosed
    /\ peerClosed' = TRUE
    /\ stream' = SubSeq(stream, 1, arrived)
    /\ UNCHANGED <<arrived, pos, sent, peerLeft, rpc, fstart, magic, length_bytes,
                   packet, checksum, count, delivered, rstop, rout, txvars, inflight>>

(***************************************************************************)
(* sock.recv(n): blocks until a byte is there or the peer has closed       *)
(***************************************************************************)
\* main has closed the socket object and no call of the receiver is still being
\* served on it: recv raises OSError (bad file descriptor).
Refused == ~sockOpen /\ ~inflight

Readable == pos < arrived \/ peerClosed \/ Refused

Recv(n) == SubSeq(stream, pos + 1, Min(pos + n, arrived))

(***************************************************************************)
(* read_rs232_frame (lines 115-152) inside receiver_thread (188-201)       *)
(***************************************************************************)
At(s, i) == IF i <= Len(s) THEN s[i] ELSE -1

\* Faulty variant: only the first magic byte is compared.
bad_magic_first_only(m) ==
    Len(m) < 2 \/ At(m, 1) # MAGIC0

bad_magic(m) ==
    Len(m) < 2 \/ At(m, 1) # MAGIC0 \/ At(m, 2) # MAGIC1

\* Faulty variant: a short read is not noticed.
short_read_ignored(chunk, n) ==
    FALSE

short_read(chunk, n) ==
    Len(chunk) < n

\* Faulty variant: the checksum is not compared.
checksum_error_never(calc, chk) ==
    FALSE

checksum_error(calc, chk) ==
    calc # chk

Stopped(n) == [tag |-> "stopped", info |-> n]

\* read_rs232_frame returns None, or raises: receiver_thread breaks.
LeaveLoop(why, printed) ==
    /\ rpc' = "stopped"
    /\ rstop' = why
    /\ rout' = rout \o printed \o <<Stopped(count)>>
    /\ UNCHANGED <<count, delivered, fstart>>

\* recv on a socket that main has closed raises OSError.
RecvRaises ==
    /\ Refused
    /\ LeaveLoop("raised", <<>>)
    /\ UNCHANGED <<stream, arrived, pos, peerClosed, sent, peerLeft, magic,
                   length_bytes, packet, checksum, txvars>>

RecvMagic ==
    /\ rpc = "magic" /\ mpc # "exited" /\ Readable
    /\ inflight' = FALSE
    /\ IF Refused THEN RecvRaises
       ELSE LET chunk == Recv(2) IN
            /\ pos' = pos + Len(chunk)
            /\ magic' = chunk
            /\ IF bad_magic(chunk)
               THEN LeaveLoop("none", <<>>)
               ELSE rpc' = "length" /\ UNCHANGED <<rstop, rout, count, delivered, fstart>>
            /\ UNCHANGED <<stream, arrived, peerClosed, sent, peerLeft, length_bytes,
                           packet, checksum, txvars>>

RecvLength ==
    /\ rpc = "length" /\ mpc # "exited" /\ Readable
    /\ inflight' = FALSE
    /\ IF Refused THEN RecvRaises
       ELSE LET chunk == Recv(2)
                length == unpack_u16_be(chunk)
            IN
            /\ pos' = pos + Len(chunk)
            /\ length_bytes' = chunk
            /\ IF short_read(chunk, 2) THEN LeaveLoop("none", <<>>)
               ELSE IF length.err # "" THEN LeaveLoop("raised", <<>>)
               ELSE /\ rpc' = IF length.val > 0 THEN "body" ELSE "checksum"
                    /\ UNCHANGED <<rstop, rout, count, delivered, fstart>>
            /\ UNCHANGED <<stream, arrived, peerClosed, sent, peerLeft, magic, packet,
                           checksum, txvars>>

RecvBody ==
    /\ rpc = "body" /\ mpc # "exited" /\ Readable
    /\ inflight' = FALSE
    /\ IF Refused THEN RecvRaises
       ELSE LET length == unpack_u16_be(length_bytes).val
                chunk == Recv(length - Len(packet))
            IN
            /\ pos' = pos + Len(chunk)
            /\ IF chunk = <<>>
               THEN LeaveLoop("none", <<>>) /\ UNCHANGED packet
               ELSE /\ packet' = packet \o chunk
                    /\ rpc' = IF Len(packet') < length THEN "body" ELSE "checksum"
                    /\ UNCHANGED <<rstop, rout, count, delivered, fstart>>
            /\ UNCHANGED <<stream, arrived, peerClosed, sent, peerLeft, magic,
                           length_bytes, checksum, txvars>>

RecvChecksum ==
    /\ rpc = "checksum" /\ mpc # "exited" /\ Readable
    /\ inflight' = FALSE
    /\ IF Refused THEN RecvRaises
       ELSE LET chunk == Recv(2) IN
            /\ pos' = pos + Len(chunk)
            /\ checksum' = chunk
            /\ IF short_read(chunk, 2)
               THEN LeaveLoop("none", <<>>)
               ELSE rpc' = "newline" /\ UNCHANGED <<rstop, rout, count, delivered, fstart>>
            /\ UNCHANGED <<stream, arrived, peerClosed, sent, peerLeft, magic,
                           length_bytes, packet, txvars>>

\* The recv(1) after the checksum, the verification, and what receiver_thread
\* does with the result up to its next recv.
RecvNewline ==
    /\ rpc = "newline" /\ mpc # "exited" /\ Readable
    /\ inflight' = FALSE
    /\ IF Refused THEN RecvRaises
       ELSE LET newline == Recv(1)
                warn == IF newline # <<>> /\ newline # <<NEWLINE>>
                        THEN << [tag |-> "warning", info |-> newline] >>
                        ELSE <<>>
                calc == fletcher16(packet)
            IN
            /\ pos' = pos + Len(newline)
            /\ IF checksum_error(calc, checksum)
               THEN /\ LeaveLoop("none", warn \o << [tag |-> "checksum", info |-> checksum] >>)
                    /\ UNCHANGED <<magic, length_bytes, packet, checksum>>
               ELSE /\ count' = count + 1
                    /\ delivered' = Append(delivered, packet)
                    /\ IF running
                       THEN /\ rpc' = "magic"
                            /\ rstop' = rstop
                            /\ rout' = rout \o warn \o display_packet(packet)
                            /\ fstart' = pos'
                            /\ magic' = <<>> /\ length_bytes' = <<>>
                            /\ packet' = <<>> /\ checksum' = <<>>
                       ELSE /\ rpc' = "stopped"
                            /\ rstop' = "flag"
                            /\ rout' = rout \o warn \o display_packet(packet)
                                            \o <<Stopped(count')>>
                            /\ UNCHANGED <<fstart, magic, length_bytes, packet, checksum>>
            /\ UNCHANGED <<stream, arrived, peerClosed, sent, peerLeft, txvars>>

Receiver == RecvMagic \/ RecvLength \/ RecvBody \/ RecvChecksum \/ RecvNewline

(***************************************************************************)
(* main (lines 250-299): one step per line read by input()                 *)
(***************************************************************************)
Say(tag, info) == << [tag |-> tag, info |-> info] >>

\* What the user may type after "msg " (never empty: the line is stripped),
\* after "name ", and as a raw packet in hex.  U+DC80 is what input() returns
\* for the stdin byte 0x80 under the surrogateescape error handler.
MsgTexts == { <<104, 105>>, <<56448>> }
NewNames == { <<66, 111, 98>> }
HexLines == { <<"1", "5", " ", "0", "0">>, <<"C", "0", "3", "e", "0", "a">>,
              <<"z", "z">>, <<"1", "5", "0">> }
Timestamps == { 1700000000 }

\* No sendall call is in progress.
NotSending == [rest |-> <<>>, note |-> <<>>]

AtPrompt == mpc = "input" /\ running /\ linesLeft > 0 /\ sending = NotSending

\* The finally clause: sock.close().  The receiver thread is not joined and
\* the socket is not shut down first, so the close may come while the receiver
\* is blocked inside recv: whether that call is then failed or goes on being
\* served (as it does on Linux) depends on the platform and on timing.
CloseSocket(printed) ==
    /\ mpc' = "closed"
    /\ sockOpen' = FALSE
    /\ inflight' \in IF rpc = "stopped" THEN {FALSE} ELSE BOOLEAN
    /\ mout' = mout \o printed \o Say("disconnected", 0)

\* An empty line (line 255).
CmdEmpty ==
    /\ AtPrompt
    /\ linesLeft' = linesLeft - 1
    /\ UNCHANGED <<rxvars, mpc, running, sockOpen, sender_name, txout, sending, mout,
                   built, inflight>>

\* quit / exit / q (258-260), Ctrl-C (284-287), end of input (288-290).
CmdQuit ==
    /\ AtPrompt
    /\ linesLeft' = linesLeft - 1
    /\ running' = FALSE
    /\ \E why \in {"quit", "interrupt", "eof"} :
         CloseSocket(IF why = "interrupt" THEN Say("interrupted", 0) ELSE <<>>)
    /\ UNCHANGED <<rxvars, sender_name, txout, sending, built>>

\* msg <text> (264-270) with send_group_text (181-186).  An exception of
\* send_group_text is caught by neither handler of the loop: it reaches the
\* handler of line 295 and the finally clause.
CmdMsgFrom(texts, times) ==
    /\ AtPrompt
    /\ linesLeft' = linesLeft - 1
    /\ \E text \in texts : \E now \in times :
         \E pkt \in {create_group_text_packet(sender_name, text, now)} :
         LET frame == IF pkt.err # "" THEN pkt ELSE create_rs232_frame(pkt.val)
         IN
         /\ built' = Append(built, [sender_name |-> sender_name, message |-> text,
                                    timestamp |-> now, packet |-> pkt])
         /\ IF frame.err # ""
            THEN /\ CloseSocket(Say("error", frame.err))
                 /\ UNCHANGED <<running, txout, sending>>
            ELSE /\ sending' = [rest |-> frame.val,
                                note |-> Say("sent_text", Len(pkt.val))]
                 /\ UNCHANGED <<mpc, running, sockOpen, inflight, txout, mout>>
    /\ UNCHANGED <<rxvars, sender_name>>

CmdMsg == CmdMsgFrom(MsgTexts, Timestamps)

\* name <nick> (272-279).
CmdNameFrom(names) ==
    /\ AtPrompt
    /\ linesLeft' = linesLeft - 1
    /\ \E new_name \in names :
         /\ sender_name' = new_name
         /\ mout' = mout \o Say("sender", new_name)
    /\ UNCHANGED <<rxvars, mpc, running, sockOpen, txout, sending, built, inflight>>

CmdName == CmdNameFrom(NewNames)

\* Anything else is a raw packet in hex (282) with send_packet (203-213).
CmdHexFrom(lines) ==
    /\ AtPrompt
    /\ linesLeft' = linesLeft - 1
    /\ \E packet_hex \in lines :
         \E pkt \in {bytes_fromhex(remove_spaces(packet_hex))} :
         LET frame == IF pkt.err # "" THEN pkt ELSE create_rs232_frame(pkt.val)
         IN IF frame.err # ""
            THEN /\ mout' = mout \o Say("error", frame.err)
                 /\ UNCHANGED sending
            ELSE /\ sending' = [rest |-> frame.val, note |-> Say("sent", Len(pkt.val))]
                 /\ UNCHANGED mout
    /\ UNCHANGED <<rxvars, mpc, running, sockOpen, sender_name, txout, built, inflight>>

CmdHex == CmdHexFrom(HexLines)

\* Faulty variant: a piece is written from its second byte on.
sendall_skips_byte(rest, k) == SubSeq(rest, 2, k)

\* sock.sendall(frame) (185, 208): the kernel takes the bytes of the frame in
\* order, in one piece or in several; the call returns when all are taken, and
\* the caller then prints its message.
sendall(rest, k) == SubSeq(rest, 1, k)

Sendall ==
    /\ mpc = "input" /\ sending # NotSending
    /\ \E k \in 1..Len(sending.rest) :
         /\ txout' = txout \o sendall(sending.rest, k)
         /\ IF k = Len(sending.rest)
            THEN sending' = NotSending /\ mout' = mout \o sending.note
            ELSE /\ sending' = [sending EXCEPT !.rest = SubSeq(@, k + 1, Len(@))]
                 /\ UNCHANGED mout
    /\ UNCHANGED <<rxvars, mpc, running, sockOpen, sender_name, built, linesLeft,
                   inflight>>

\* Ctrl-C while main is inside sendall: KeyboardInterrupt is not an Exception
\* (211), so from either send function it reaches the handler of line 284.
SendallInterrupted ==
    /\ mpc = "input" /\ sending # NotSending
    /\ sending' = NotSending
    /\ running' = FALSE
    /\ CloseSocket(Say("interrupted", 0))
    /\ UNCHANGED <<rxvars, sender_name, txout, built, linesLeft>>

\* main returns: the process ends and takes the daemon thread with it.
Exit ==
    /\ mpc = "closed"
    /\ mpc' = "exited"
    /\ UNCHANGED <<rxvars, running, sockOpen, sender_name, txout, sending, mout,
                   built, linesLeft, inflight>>

Main == CmdEmpty \/ CmdQuit \/ CmdMsg \/ CmdName \/ CmdHex \/ Sendall
           \/ SendallInterrupted \/ Exit

(***************************************************************************)
(* Specifications                                                          *)
(***************************************************************************)
RxInit ==
    /\ rpc = "magic" /\ fstart = 0
    /\ magic = <<>> /\ length_bytes = <<>> /\ packet = <<>> /\ checksum = <<>>
    /\ count = 0 /\ delivered = <<>> /\ rstop = "" /\ rout = <<>>

TxInit ==
    /\ mpc = "input" /\ running = TRUE /\ sockOpen = TRUE
    /\ sender_name = <<65>>
    /\ txout = <<>> /\ sending = NotSending /\ mout = <<>> /\ built = <<>>

\* The state once main has connected and started the receiver thread.
Connected ==
    /\ stream = <<>> /\ arrived = 0 /\ pos = 0 /\ peerClosed = FALSE
    /\ sent = <<>>
    /\ inflight = FALSE
    /\ RxInit
    /\ TxInit

Init == Connected /\ peerLeft = ConcSends /\ linesLeft = ConcCmds

Next == PeerSend \/ Deliver \/ PeerClose \/ Receiver \/ Main

Spec == Init /\ [][Next]_vars

\* The inbound flow alone: the user types nothing.
InitRx == Connected /\ peerLeft = MaxPeerSends /\ linesLeft = 0

NextRx == PeerSend \/ Deliver \/ PeerClose \/ Receiver

SpecRx == InitRx /\ [][NextRx]_vars

\* The outbound flow alone: the peer is silent.
InitTx == Connected /\ peerLeft = 0 /\ linesLeft = MaxCmds

SpecTx == InitTx /\ [][Main]_vars

\* The codec on one whole frame: the peer has written one frame, all of it
\* has arrived, and the stream has ended.
PktByte == {0, 10, 192, 255}

InitCodec ==
    /\ \E p \in SeqsUpTo(PktByte, MaxLen) :
         \/ \E nl \in BOOLEAN :
              /\ sent = << Item("good", p, 0, 0, nl) >>
              /\ stream = WireBytes(sent[1])
         \/ \E i \in 1..Len(p) : \E v \in (0..255) \ {p[i]} :
              /\ sent = << Item("corrupt", p, i, v, FALSE) >>
              /\ stream = WireBytes(sent[1])
    /\ arrived = Len(stream) /\ pos = 0 /\ peerClosed = TRUE
    /\ peerLeft = 0 /\ linesLeft = 0
    /\ inflight = FALSE
    /\ RxInit
    /\ TxInit

SpecCodec == InitCodec /\ [][Receiver]_vars

\* The packet builder on its inputs: msg commands with texts of 7 to MaxText
\* characters (and two texts with multi-byte characters), under a short and
\* a long sender name and two clock values, so that the plaintext lengths pass
\* the block boundaries 16 and 32.
BuildTexts == {[i \in 1..n |-> 97] : n \in 7..MaxText} \cup {<<233>>, <<8364, 97>>}
BuildNames == {[i \in 1..17 |-> 78]}
BuildTimes == {1, 1700000000}

BuildMsg == CmdMsgFrom(BuildTexts, BuildTimes)

BuildName == CmdNameFrom(BuildNames)

InitBuild == Connected /\ peerLeft = 0 /\ linesLeft = BuildCmds

NextBuild == BuildMsg \/ BuildName \/ Sendall

SpecBuild == InitBuild /\ [][NextBuild]_vars

\* The header byte on every route and type: the peer has written the frame of
\* a three-byte packet whose header packs the two as line 100 does, with
\* path_len 0 and an empty payload, and the receiver reads and displays it.
Routes == 0..3
PacketTypes == 0..15

InitHeader ==
    /\ \E route \in Routes : \E ptype \in PacketTypes :
         sent = << Item("good", <<pack_header(ptype, route), 0, 0>>, 0, 0, FALSE) >>
    /\ stream = WireBytes(sent[1])
    /\ arrived = Len(stream) /\ pos = 0 /\ peerClosed = TRUE
    /\ peerLeft = 0 /\ linesLeft = 0
    /\ inflight = FALSE
    /\ RxInit
    /\ TxInit

SpecHeader == InitHeader /\ [][Receiver]_vars

\* Raw packets at the limit of the 16-bit length field: the user pastes the
\* hex of a packet of 65536 zero bytes, one byte more than the field can
\* count, among packets of ordinary size.
OversizedHex == [i \in 1..(2 * (U16_MAX + 1)) |-> "0"]

\* The packet these digits stand for.
OversizedPacket == bytes_fromhex(remove_spaces(OversizedHex)).val

BigHexLines == { OversizedHex, <<"1", "5", " ", "0", "0">>, <<"0", "0">>, <<"0">> }

BigHex == CmdHexFrom(BigHexLines)

InitBig == Connected /\ peerLeft = 0 /\ linesLeft = BigCmds

NextBig == BigHex \/ Sendall

SpecBig == InitBig /\ [][NextBig]_vars

(***************************************************************************)
(* Properties                                                              *)
(***************************************************************************)
Printed(out, tag) == \E i \in 1..Len(out) : out[i].tag = tag

\* The peer wrote one frame exactly as create_rs232_frame builds it.
OnePlainFrame == Len(sent) = 1 /\ sent[1].kind = "good" /\ ~sent[1].nl

\* The first call of read_rs232_frame has returned.
FirstReadOver == count > 0 \/ rpc = "stopped"

\* C1 (SpecCodec): frame round trip.  When the bytes of
\* create_rs232_frame(p) are in the socket and the stream then ends,
\* read_rs232_frame returns exactly p, for every p including the empty one.
C1_RoundTrip ==
    (OnePlainFrame /\ FirstReadOver) => delivered = << sent[1].pkt >>

C1_Witness ==
    /\ OnePlainFrame /\ Len(sent[1].pkt) = MaxLen
    /\ rpc = "stopped" /\ delivered = << sent[1].pkt >>

\* The peer wrote one frame with one body byte replaced.
OneCorruptFrame == Len(sent) = 1 /\ sent[1].kind = "corrupt"

\* C2 as stated (SpecCodec): a frame with any single body byte replaced by
\* any different value is never returned as a packet.
C2_AnyByteDetected ==
    OneCorruptFrame => delivered = <<>>

\* The replaced byte differs from the original modulo 255, that is, the
\* change is not 0x00 <-> 0xFF.
DiffersMod255 ==
    sent[1].val % FLETCHER_MOD # sent[1].pkt[sent[1].idx] % FLETCHER_MOD

\* C2 amended (SpecCodec): a frame with one body byte replaced by a value
\* that differs from it modulo 255 is rejected with a checksum mismatch:
\* no packet is returned, the checksum error is reported and the read ends
\* with None.
C2_DetectedMod255 ==
    (OneCorruptFrame /\ DiffersMod255) =>
        /\ delivered = <<>>
        /\ rpc = "stopped" =>
              /\ rstop = "none"
              /\ Printed(rout, "checksum")
              /\ packet = [sent[1].pkt EXCEPT ![sent[1].idx] = sent[1].val]

C2_Witness ==
    /\ OneCorruptFrame /\ DiffersMod255
    /\ rpc = "stopped" /\ Printed(rout, "checksum") /\ delivered = <<>>

\* C3 as stated (SpecRx): after a frame was dropped for a checksum mismatch
\* the inbound flow keeps reading, so that the well-formed frame the peer
\* wrote after it is still decoded.
C3_ReadingContinues ==
    (/\ Len(sent) = 2 /\ sent[1].kind = "corrupt" /\ sent[2].kind = "good"
     /\ Printed(rout, "checksum"))
        => rpc # "stopped"

\* Every write of the peer was a well-formed frame followed by the delimiter.
AllWellFormed ==
    \A i \in 1..Len(sent) : sent[i].kind = "good" /\ sent[i].nl

IsPrefix(s, t) == Len(s) <= Len(t) /\ s = SubSeq(t, 1, Len(s))

\* C4 as stated (SpecRx): while the stream is open, well-formed frames are
\* read whatever the sizes of the segments they arrive in: no read fails, and
\* the packets returned are the packets sent, in order.
C4_ChunkingIndependent ==
    (AllWellFormed /\ ~peerClosed) =>
        /\ rpc # "stopped"
        /\ IsPrefix(delivered, [i \in 1..Len(sent) |-> sent[i].pkt])

\* C5 as stated (SpecRx): reading a frame that has no trailing delimiter
\* consumes no byte after its checksum: once the first packet is returned,
\* the next read starts at the first byte after the first frame.
C5_NoByteOfNextFrame ==
    (/\ Len(sent) >= 1 /\ sent[1].kind = "good" /\ ~sent[1].nl
     /\ count = 1 /\ delivered = << sent[1].pkt >>)
        => fstart = Len(WireBytes(sent[1]))

\* C6 (SpecCodec): frame layout.  create_rs232_frame(p) is 0xC0 0x3E, the
\* length of p as two big-endian bytes, p itself, then fletcher16(p), and
\* nothing else: len(p) + 6 bytes.
C6_FrameLayout ==
    OnePlainFrame =>
        LET p == sent[1].pkt
            n == Len(p)
        IN /\ Len(stream) = n + 6
           /\ stream[1] = 192 /\ stream[2] = 62
           /\ stream[3] = n \div 256 /\ stream[4] = n % 256
           /\ SubSeq(stream, 5, 4 + n) = p
           /\ SubSeq(stream, 5 + n, 6 + n) = fletcher16(p)

C6_Witness ==
    OnePlainFrame /\ Len(sent[1].pkt) = MaxLen /\ pos = 0 /\ Len(stream) = MaxLen + 6

\* The reference Fletcher-16 of the first i bytes of d: a, then b.
RECURSIVE RefA(_, _)
RefA(d, i) == IF i = 0 THEN 0 ELSE (RefA(d, i - 1) + d[i]) % 255

RECURSIVE RefB(_, _)
RefB(d, i) == IF i = 0 THEN 0 ELSE (RefB(d, i - 1) + RefA(d, i)) % 255

Fletcher16Ref(d) == << RefB(d, Len(d)), RefA(d, Len(d)) >>

\* C7 (SpecCodec): fletcher16 is the reference Fletcher-16 with output
\* [b, a], both bytes in 0..254: the checksum field the encoder wrote is the
\* reference checksum of the packet, the checksum the decoder computes over
\* the body it received is the reference checksum of that body, and the
\* decoder's recomputation over an undamaged body equals the stored field.
C7_Fletcher16 ==
    /\ sent[1].kind = "good" =>
          LET n == Len(sent[1].pkt)
          IN SubSeq(stream, 5 + n, 6 + n) = Fletcher16Ref(sent[1].pkt)
    /\ rpc = "newline" =>
          LET calc == fletcher16(packet)
          IN /\ calc = Fletcher16Ref(packet)
             /\ calc[1] \in 0..254 /\ calc[2] \in 0..254
             /\ sent[1].kind = "good" => ~checksum_error(calc, checksum)

C7_Witness ==
    /\ rpc = "newline" /\ Len(packet) = MaxLen
    /\ \E i \in 1..Len(packet) : packet[i] = 255
    /\ fletcher16(packet) = checksum

\* C8 (SpecRx): a mismatched magic ends the read at once.  Two bytes that
\* are not 0xC0 0x3E leave read_rs232_frame returning None with exactly
\* those two bytes consumed and no length, body or checksum read.
C8_BadMagicAborts ==
    (Len(magic) = 2 /\ magic # <<192, 62>>) =>
        /\ rpc = "stopped" /\ rstop = "none"
        /\ pos = fstart + 2
        /\ length_bytes = <<>> /\ packet = <<>> /\ checksum = <<>>
        /\ Len(delivered) = count

C8_Witness ==
    /\ Len(magic) = 2 /\ magic # <<192, 62>>
    /\ rpc = "stopped" /\ pos < arrived

\* The stream has ended and the frame being read is not complete: the recv
\* the receiver is blocked in cannot be satisfied.
TruncatedHere ==
    /\ peerClosed /\ sockOpen
    /\ \/ rpc \in {"magic", "length", "checksum"} /\ Len(stream) - pos < 2
       \/ rpc = "body" /\ pos = Len(stream)

\* C9 (SpecRx): truncation.  When the peer has closed before the frame is
\* complete, the read ends by returning None (not by an exception) and
\* returns no packet.
C9_TruncationReturnsNone ==
    [][TruncatedHere =>
          /\ rpc' = "stopped" /\ rstop' = "none"
          /\ delivered' = delivered /\ count' = count]_vars

C9_Witness ==
    /\ peerClosed /\ rpc = "stopped" /\ rstop = "none" /\ pos = Len(stream)
    /\ Len(length_bytes) = 2 /\ Len(packet) > 0
    /\ Len(packet) < unpack_u16_be(length_bytes).val

\* C10 as stated (SpecTx): a send request whose input cannot be turned into a
\* frame writes nothing, leaves the socket open and the command loop running.
C10_RejectedInputLeavesConnection ==
    [][(Len(mout') > Len(mout) /\ mout'[Len(mout) + 1].tag = "error") =>
          /\ txout' = txout
          /\ sockOpen'
          /\ mpc' = "input"]_vars

\* C11 as stated (Spec): closing the socket ends the inbound flow.  Once main
\* has called sock.close(), the next read of the receiver fails and its loop
\* ends, and no packet is returned, counted or displayed any more.
C11_CloseEndsInboundFlow ==
    [][~sockOpen =>
          /\ delivered' = delivered /\ count' = count
          /\ (rpc' # rpc \/ pos' # pos) =>
                rpc' = "stopped"]_vars

\* The two running sums <<a, b>> of the reference Fletcher-16 over bytes
\* from..to of f.
RECURSIVE RefSums(_, _, _)
RefSums(f, from, to) ==
    IF to < from THEN <<0, 0>>
    ELSE LET before == RefSums(f, from, to - 1)
             a == (before[1] + f[to]) % 255
         IN <<a, (before[2] + a) % 255>>

\* f is one complete frame: magic, the length of its body, the body and the
\* reference checksum of the body.
IsFrame(f) ==
    /\ Len(f) >= 6
    /\ f[1] = 192 /\ f[2] = 62
    /\ (f[3] * 256) + f[4] = Len(f) - 6
    /\ LET sums == RefSums(f, 5, Len(f) - 2)
       IN f[Len(f) - 1] = sums[2] /\ f[Len(f)] = sums[1]

\* What is left of out once the complete frames at its start are taken away.
RECURSIVE AfterWholeFrames(_)
AfterWholeFrames(out) ==
    IF Len(out) < 4 THEN out
    ELSE LET n == 6 + (out[3] * 256) + out[4]
         IN IF Len(out) >= n /\ IsFrame(SubSeq(out, 1, n))
            THEN AfterWholeFrames(SubSeq(out, n + 1, Len(out)))
            ELSE out

\* The outbound byte stream is complete frames, followed by the part already
\* written of the frame a sendall call is writing (or was writing when Ctrl-C
\* ended it).
WholeFramesThenPrefix ==
    LET tail == AfterWholeFrames(txout)
    IN IF sending # NotSending THEN IsFrame(tail \o sending.rest)
       ELSE tail = <<>> \/ (Printed(mout, "interrupted") /\ ~sockOpen)

\* The body lengths of the complete frames at the start of out, in order.
RECURSIVE WholeFrameSizes(_)
WholeFrameSizes(out) ==
    IF Len(out) < 4 THEN <<>>
    ELSE LET n == 6 + (out[3] * 256) + out[4]
         IN IF Len(out) >= n /\ IsFrame(SubSeq(out, 1, n))
            THEN <<n - 6>> \o WholeFrameSizes(SubSeq(out, n + 1, Len(out)))
            ELSE <<>>

\* The packet sizes main reported as sent, in order.
ReportedSizes ==
    LET sends == SelectSeq(mout, LAMBDA e : e.tag \in {"sent", "sent_text"})
    IN [i \in 1..Len(sends) |-> sends[i].info]

\* C12 (Spec): frames are never interleaved on the wire.  With the receiver
\* running concurrently, the outbound stream is at every moment a
\* concatenation of complete frames, possibly followed by a prefix of the
\* frame being written; the complete frames are exactly the sends the command
\* loop has completed, one whole frame each, so that no byte on the wire comes
\* from the receiver.
C12_FramesNotInterleaved ==
    /\ WholeFramesThenPrefix
    /\ WholeFrameSizes(txout) = ReportedSizes

\* A second frame is partly written after a complete one, while the receiver
\* has returned a packet and is reading on.
C12_Witness ==
    /\ sending # NotSending
    /\ Len(WholeFrameSizes(txout)) = 1 /\ AfterWholeFrames(txout) # <<>>
    /\ count = 1 /\ rpc = "magic"

\* C15 (SpecHeader): the header byte round-trips.  For every route in 0..3
\* and type in 0..15 the byte (type << 2) | route has bits 6 and 7 zero, and
\* display_packet unpacks from it the same route and type; FLOOD and GRP_TXT
\* give 0x15.
C15_HeaderRoundTrip ==
    /\ pack_header(TYPE_GRP_TXT, ROUTE_FLOOD) = 21
    /\ \A route \in Routes : \A ptype \in PacketTypes :
         sent[1].pkt[1] = pack_header(ptype, route) =>
            /\ sent[1].pkt[1] \div 64 = 0
            /\ count = 1 =>
                  /\ Len(rout) >= 1 /\ rout[1].tag = "rx"
                  /\ rout[1].route = route /\ rout[1].ptype = ptype

C15_Witness ==
    /\ sent[1].pkt[1] = pack_header(15, 2)
    /\ count = 1 /\ rout[1].tag = "rx" /\ rout[1].route = 2 /\ rout[1].ptype = 15

\* The builds that returned a packet.
Built == {i \in 1..Len(built) : built[i].packet.err = ""}

SameArguments(i, j) ==
    /\ built[i].sender_name = built[j].sender_name
    /\ built[i].message = built[j].message
    /\ built[i].timestamp = built[j].timestamp

PlaintextOf(i) ==
    create_group_message_data(built[i].timestamp, built[i].sender_name,
                              built[i].message).val

\* C14 (SpecBuild): the zero-padding rule.  pad_to_block_size returns the
\* plaintext unchanged when its length is a multiple of 16 (length 0
\* included), and otherwise the plaintext followed by the fewest zero bytes
\* (1..15) that reach the next multiple of 16; the ciphertext of the packet
\* has that length (16 -> 16, 17 -> 32), and the padded data starts with the
\* plaintext.
C14_ZeroPadding ==
    /\ pad_to_block_size(<<>>, 16) = <<>>
    /\ \A i \in Built :
         LET plaintext == PlaintextOf(i)
             n == Len(plaintext)
             padded == pad_to_block_size(plaintext, 16)
         IN /\ Len(padded) % 16 = 0
            /\ Len(padded) >= n /\ Len(padded) - n < 16
            /\ n % 16 = 0 => padded = plaintext
            /\ SubSeq(padded, 1, n) = plaintext
            /\ \A k \in (n + 1)..Len(padded) : padded[k] = 0
            /\ Len(built[i].packet.val) - 5 = Len(padded)

\* One plaintext of exactly 16 bytes and one of 17 were built.
C14_Witness ==
    /\ Len(built) = 2 /\ Built = {1, 2}
    /\ Len(PlaintextOf(1)) = 16 /\ Len(built[1].packet.val) = 5 + 16
    /\ Len(PlaintextOf(2)) = 17 /\ Len(built[2].packet.val) = 5 + 32

\* n as four little-endian bytes.
LittleEndian4(n) ==
    <<n % 256, (n \div 256) % 256, (n \div 65536) % 256, (n \div 16777216) % 256>>

\* C16 (SpecBuild): the layout of a group-text packet.  The packet is the
\* header byte, 0x00 for path_len, the one-byte channel hash, the two-byte
\* MAC and the ciphertext; the plaintext is the timestamp as four
\* little-endian bytes, one 0x00 byte and the UTF-8 bytes of
\* "<sender>: <message>" with no length prefix; so the packet is
\* 5 + (5 + len(text)) rounded up to a multiple of 16 bytes long.
C16_PacketLayout ==
    \A i \in Built :
        LET pkt == built[i].packet.val
            secret == get_public_channel_secret
            text == utf8_encode(built[i].sender_name \o <<58, 32>>
                                \o built[i].message).val
            plaintext == LittleEndian4(built[i].timestamp) \o <<0>> \o text
            ciphertext == SubSeq(pkt, 6, Len(pkt))
        IN /\ pkt[1] = 21 /\ pkt[2] = 0
           /\ pkt[3] = get_public_channel_hash(secret)
           /\ SubSeq(pkt, 4, 5) = SubSeq(hmac_sha256(secret, ciphertext), 1, 2)
           /\ ciphertext = encrypt_aes128(secret, plaintext)
           /\ Len(pkt) = 5 + (16 * ((5 + Len(text) + 15) \div 16))

\* A text with a three-byte character was built into a 21-byte packet, and
\* a longer one into a 37-byte packet.
C16_Witness ==
    /\ Len(built) = 2 /\ Built = {1, 2}
    /\ built[1].message = <<8364, 97>> /\ Len(built[1].packet.val) = 21
    /\ Len(built[2].message) = MaxText /\ Len(built[2].packet.val) = 37

\* C17 as stated (SpecBuild): encode and inspect agree on the layout.  For
\* every packet create_group_text_packet built, the payload display_packet
\* extracts is the payload the builder placed after the path_len byte: the
\* channel hash, the MAC and the ciphertext.
C17_InspectAgreesWithBuild ==
    \A i \in Built :
        LET pkt == built[i].packet.val
            shown == display_packet(pkt)
        IN /\ Len(shown) = 1
           /\ shown[1].payload = SubSeq(pkt, 3, Len(pkt))

\* C18 as stated (SpecRx): prompt delivery of a complete frame.  Once the
\* magic, the length, the whole body and a matching checksum of a frame have
\* been read, read_rs232_frame can return the packet without any further
\* byte from the peer: with everything the peer wrote arrived, the receiver
\* is not blocked, even if the peer sent no delimiter and stays silent with
\* the connection open.
C18_PromptDelivery ==
    (/\ rpc = "newline"
     /\ ~checksum_error(fletcher16(packet), checksum)
     /\ arrived = Len(stream))
        => ENABLED Receiver

\* The packets delivered from the k-th on came from frames that lie in the
\* inbound stream from offset o on: each begins with 0xC0 0x3E, has a body of
\* exactly the length its length field gives, and carries the reference
\* checksum of that body; one more byte was consumed after each.
RECURSIVE FramesVerified(_, _)
FramesVerified(k, o) ==
    IF k > Len(delivered) THEN TRUE
    ELSE LET p == delivered[k]
             n == Len(p)
         IN /\ o + 6 + n <= pos
            /\ stream[o + 1] = 192 /\ stream[o + 2] = 62
            /\ (stream[o + 3] * 256) + stream[o + 4] = n
            /\ SubSeq(stream, o + 5, o + 4 + n) = p
            /\ SubSeq(stream, o + 5 + n, o + 6 + n) = Fletcher16Ref(p)
            /\ FramesVerified(k + 1, o + 7 + n)

\* What display_packet printed for the packets from the k-th on.
RECURSIVE DisplayedFrom(_)
DisplayedFrom(k) ==
    IF k > Len(delivered) THEN <<>>
    ELSE display_packet(delivered[k]) \o DisplayedFrom(k + 1)

\* C19 (SpecRx): only verified packets are displayed.  In every state of the
\* receiver loop each packet that was counted and passed to display_packet
\* came from a frame that began with 0xC0 0x3E, whose body had exactly the
\* number of bytes its length field gave and whose received checksum is the
\* Fletcher-16 of that body; what was displayed is what display_packet
\* prints for those packets; and once a frame read has failed, the line
\* "Receiver stopped" is the last thing the receiver printed: nothing is
\* displayed after it.
C19_OnlyVerifiedDisplayed ==
    /\ count = Len(delivered)
    /\ FramesVerified(1, 0)
    /\ SelectSeq(rout, LAMBDA e : e.tag = "rx") = DisplayedFrom(1)
    /\ rpc = "stopped" =>
          /\ rout[Len(rout)] = Stopped(count)
          /\ Len(SelectSeq(rout, LAMBDA e : e.tag = "stopped")) = 1

\* A packet was displayed, and the read of the next frame failed on its
\* checksum.
C19_Witness ==
    /\ rpc = "stopped" /\ rstop = "none"
    /\ Len(sent) = 2 /\ sent[2].kind = "corrupt"
    /\ delivered = << <<21, 0, 255>> >>
    /\ Printed(rout, "rx") /\ Printed(rout, "checksum")

\* main printed the error of an out-of-range length in this step.
LengthErrorPrinted ==
    /\ Len(mout') = Len(mout) + 1
    /\ mout'[Len(mout')] = [tag |-> "error", info |-> "struct.error"]

\* C20 (SpecBig): the 16-bit length field never wraps.  Every frame handed
\* to sendall carries a length field equal to the true byte count of its
\* body, and only bytes of that frame are written; a packet longer than 65535
\* bytes makes framing fail (it does not produce a frame whose length field
\* is len(packet) mod 65536), and then no byte is written.
C20_LengthNeverWraps ==
    [][/\ create_rs232_frame(OversizedPacket).err = "struct.error"
       /\ (sending = NotSending /\ sending' # NotSending) =>
             LET frame == sending'.rest
             IN /\ Len(frame) >= 6
                /\ (frame[3] * 256) + frame[4] = Len(frame) - 6
       /\ txout' # txout =>
             /\ sending # NotSending
             /\ IsPrefix(txout', txout \o sending.rest)
       /\ LengthErrorPrinted => (txout' = txout /\ sending' = NotSending)]_vars

\* After a packet of ordinary size was sent, the oversized one was refused,
\* and the stream holds the one frame.
C20_Witness ==
    /\ Len(mout) = 2 /\ mout[1].tag = "sent"
    /\ mout[2] = [tag |-> "error", info |-> "struct.error"]
    /\ txout = create_rs232_frame(<<21, 0>>).val
    /\ sending = NotSending

====
